---- MODULE Spec2Model ----
(***************************************************************************)
(* rustility: the result_or_option! macro (src/macros.rs) and the Discard  *)
(* and AsyncMap extension traits for Option and Result (src/traits.rs).    *)
(*                                                                         *)
(* One caller function is modelled.  It repeatedly invokes one of the      *)
(* three facilities on inputs drawn from small sets, runs it step by step, *)
(* runs its own statement after the invocation and reaches the end of its  *)
(* scope.  The call stack, the ownership of the container handed to        *)
(* discard and the destructor runs of its payload are state.               *)
(***************************************************************************)
EXTENDS Integers, Sequences, FiniteSets, TLC

VARIABLES
    pc,        \* position of the caller / of the running operation
    kind,      \* operation invoked: "roo" (result_or_option!), "async_map", "discard"
    form,      \* macro arm: "async_block", "async_expr", "block", "expr"
    body,      \* wrapped code of result_or_option!: [retTy, steps, tail]
    self,      \* container handed to async_map / discard: [c, tcopy, ecopy]
    map,       \* transform handed to async_map
    stack,     \* callables being executed, innermost first; the caller is "fn"
    idx,       \* next step of the wrapped code to evaluate
    evald,     \* indexes of the steps of the wrapped code evaluated so far
    acc,       \* sum of the values unwrapped by `?` so far
    ret,       \* value returned by the callable the operation ran
    result,    \* value of the invocation expression in the caller
    evalCount, \* times the wrapped code started to be evaluated
    mapCalls,  \* arguments the transform was invoked with, in order
    fut,       \* the inner asynchronous computation awaited: "none", "pending", "ready"
    awaits,    \* times the operation itself suspended on its .await
    binding,   \* caller's binding of the container: "none", "valid", "moved"
    drops,     \* destructor runs of the payload held by the container
    early,     \* index of the step whose `?` returned early, 0 if none
    afterRan   \* the caller's statement after the invocation has run

vars == <<pc, kind, form, body, self, map, stack, idx, evald, acc, ret, result,
          evalCount, mapCalls, fut, awaits, binding, drops, early, afterRan>>

----------------------------------------------------------------------------
(* Bounds *)

\* Largest value a container holds in the inputs.
MaxVal == 1

\* Largest number of `?` steps in the wrapped code.
MaxSteps == 2

----------------------------------------------------------------------------
(* Containers: Option<T> and Result<T, E> as uniform records. *)

NoVal == 0 - 1

Val == 0..MaxVal

\* An error payload: its type, its identity, and the type it was converted from.
\* "io" stands for a concrete error type (std::io::Error in the tests), "box"
\* for Box<dyn std::error::Error>.
NoErr == [ty |-> "none", id |-> "none", from |-> "none"]

ErrTy == {"io", "box"}

ErrId == {"e1", "e2"}

ErrOf(ty) == {[ty |-> ty, id |-> i, from |-> ty] : i \in ErrId}

Ok(v) == [tag |-> "Ok", val |-> v, err |-> NoErr]

Err(e) == [tag |-> "Err", val |-> NoVal, err |-> e]

Some(v) == [tag |-> "Some", val |-> v, err |-> NoErr]

None == [tag |-> "None", val |-> NoVal, err |-> NoErr]

Unit == [tag |-> "Unit", val |-> NoVal, err |-> NoErr]

NoResult == [tag |-> "NoResult", val |-> NoVal, err |-> NoErr]

\* The tail expression `Ok(x + y)` / `Some(x + y)` of the doc example: it wraps
\* the sum of the values the preceding steps unwrapped.
OkSum == [tag |-> "OkSum", val |-> NoVal, err |-> NoErr]

SomeSum == [tag |-> "SomeSum", val |-> NoVal, err |-> NoErr]

IsFailure(c) == c.tag \in {"Err", "None"}

IsSuccess(c) == c.tag \in {"Ok", "Some"}

----------------------------------------------------------------------------
(* The wrapped code handed to result_or_option!: steps, each followed by   *)
(* `?`, then a tail expression.  retTy is the error type of the value the  *)
(* wrapped code evaluates to ("opt" when it is an Option).                 *)

RECURSIVE SeqsUpTo(_, _)
SeqsUpTo(S, n) ==
    IF n = 0 THEN {<<>>}
    ELSE LET shorter == SeqsUpTo(S, n - 1)
         IN  shorter \cup {Append(q, x) : q \in {r \in shorter : Len(r) = n - 1}, x \in S}

\* `?` converts the error with From::from: a step's error type must be the
\* result's error type or convert into it (any error converts into a Box).
StepsOf(retTy) ==
    IF retTy = "opt"
    THEN {Some(v) : v \in Val} \cup {None}
    ELSE {Ok(v) : v \in Val}
         \cup {Err(e) : e \in UNION {ErrOf(ty) : ty \in {t \in ErrTy : t = retTy \/ retTy = "box"}}}

TailsOf(retTy) ==
    IF retTy = "opt"
    THEN {SomeSum, None} \cup {Some(v) : v \in Val}
    ELSE {OkSum} \cup {Ok(v) : v \in Val} \cup {Err(e) : e \in ErrOf(retTy)}

Bodies ==
    {[retTy |-> ty, steps |-> st, tail |-> tl] :
        ty \in {"opt"}, st \in SeqsUpTo(StepsOf("opt"), MaxSteps), tl \in TailsOf("opt")}
    \cup {[retTy |-> ty, steps |-> st, tail |-> tl] :
        ty \in {"io"}, st \in SeqsUpTo(StepsOf("io"), MaxSteps), tl \in TailsOf("io")}
    \cup {[retTy |-> ty, steps |-> st, tail |-> tl] :
        ty \in {"box"}, st \in SeqsUpTo(StepsOf("box"), MaxSteps), tl \in TailsOf("box")}

NoBody == [retTy |-> "none", steps |-> <<>>, tail |-> NoResult]

\* From::from, applied by `?` to the error it propagates: the identity when the
\* types agree, otherwise the error converted into the target type.
From(e, ty) == IF e.ty = ty THEN e ELSE [ty |-> ty, id |-> e.id, from |-> e.ty]

\* The value `?` makes the enclosing callable return on a failure/absent step.
Residual(c, retTy) == IF c.tag = "Err" THEN Err(From(c.err, retTy)) ELSE None

\* The tail expression's value, given the sum of the unwrapped values.
TailValue(tl, sum) ==
    CASE tl.tag = "OkSum" -> Ok(sum)
      [] tl.tag = "SomeSum" -> Some(sum)
      [] OTHER -> tl

----------------------------------------------------------------------------
(* Inputs of async_map and discard. *)

\* Transforms handed to async_map: each maps the held value to a future of a
\* new value.
Maps == {"inc", "dbl", "zero"}

Apply(f, t) ==
    CASE f = "inc" -> t + 1
      [] f = "dbl" -> 2 * t
      [] OTHER -> 0

Containers ==
    {Some(v) : v \in Val} \cup {None} \cup {Ok(v) : v \in Val} \cup {Err(e) : e \in ErrOf("io")}

\* A container with its type: tcopy / ecopy say whether T / E is a Copy type
\* (an Option has no E).
Selves ==
    {[c |-> c, tcopy |-> t, ecopy |-> e] :
        c \in {x \in Containers : x.tag \in {"Ok", "Err"}}, t \in BOOLEAN, e \in BOOLEAN}
    \cup {[c |-> c, tcopy |-> t, ecopy |-> e] :
        c \in {x \in Containers : x.tag \in {"Some", "None"}}, t \in BOOLEAN, e \in {TRUE}}

NoSelf == [c |-> NoResult, tcopy |-> TRUE, ecopy |-> TRUE]

\* Option<T> is Copy when T is, Result<T, E> when T and E are.
IsCopy(s) == s.tcopy /\ s.ecopy

\* Destructor runs that dropping the container causes: one when it holds a
\* payload whose type has a destructor, none for a Copy payload or for None.
DropGlue(s) ==
    CASE s.c.tag \in {"Ok", "Some"} -> IF s.tcopy THEN 0 ELSE 1
      [] s.c.tag = "Err" -> IF s.ecopy THEN 0 ELSE 1
      [] OTHER -> 0

----------------------------------------------------------------------------
(* Initial state: the caller is about to invoke a facility. *)

Init ==
    /\ pc = "idle"
    /\ kind = "none"
    /\ form = "none"
    /\ body = NoBody
    /\ self = NoSelf
    /\ map = "none"
    /\ stack = <<"fn">>
    /\ idx = 1
    /\ evald = <<>>
    /\ acc = 0
    /\ ret = NoResult
    /\ result = NoResult
    /\ evalCount = 0
    /\ mapCalls = <<>>
    /\ fut = "none"
    /\ awaits = 0
    /\ binding = "none"
    /\ drops = 0
    /\ early = 0
    /\ afterRan = FALSE

----------------------------------------------------------------------------
(* result_or_option! *)

Forms == {"async_block", "async_expr", "block", "expr"}

IsAsync(f) == f \in {"async_block", "async_expr"}

\* The callable each arm wraps the code in: `async $e` / `async { $e }` for
\* the async arms, the closure `|| $e` for the others.
CallableFrame(f) == IF IsAsync(f) THEN "async_block" ELSE "closure"

\* An arm that names $e twice.
TwoExpansions == 1 + 1

\* Occurrences of $e in an arm's expansion.
Expansions == 1

\* `?` written in the caller's own body: it exits the caller.
ExitToCaller(stk) == <<>>

\* The callable `?` exits is the innermost one: what is left of the stack.
ExitTo(stk) == Tail(stk)

\* An arm that ends the wrapped code with `;`: the callable returns unit.
YieldUnit(r) == Unit

\* An arm that reports a failure as an error of its own.
YieldOwnError(r) ==
    IF r.tag = "Err" THEN Err([ty |-> r.err.ty, id |-> "wrapper", from |-> r.err.ty]) ELSE r

\* An arm that switches the Option's variant.
YieldFlipped(r) ==
    CASE r.tag = "None" -> Some(0)
      [] r.tag = "Some" -> None
      [] OTHER -> r

\* The value of the invocation expression: the callable's own result.
WrapperYield(r) == r

\* result_or_option!(...) in the caller: the arm's expansion creates the
\* callable around the wrapped code.
Invoke_result_or_option(f, b) ==
    /\ pc = "idle"
    /\ kind' = "roo"
    /\ form' = f
    /\ body' = b
    /\ pc' = "created"
    /\ UNCHANGED <<self, map, stack, idx, evald, acc, ret, result, evalCount,
                   mapCalls, fut, awaits, binding, drops, early, afterRan>>

\* `(...)()` calls the closure; `.await` polls the async block for the first
\* time.  Either starts evaluating the wrapped code inside the callable.
CallCallable ==
    /\ pc = "created"
    /\ kind = "roo"
    /\ stack' = <<CallableFrame(form)>> \o stack
    /\ evalCount' = evalCount + 1
    /\ idx' = 1
    /\ acc' = 0
    /\ pc' = "body"
    /\ UNCHANGED <<kind, form, body, self, map, evald, ret, result, mapCalls,
                   fut, awaits, binding, drops, early, afterRan>>

\* The next step of the wrapped code, followed by `?`: a success/present step
\* is unwrapped and evaluation goes on; a failure/absent step makes the
\* enclosing callable return at once.
EvalStep ==
    /\ pc = "body"
    /\ fut # "pending"
    /\ idx <= Len(body.steps)
    /\ LET c == body.steps[idx] IN
        /\ evald' = Append(evald, idx)
        /\ fut' = "none"
        /\ IF IsSuccess(c)
           THEN /\ acc' = acc + c.val
                /\ idx' = idx + 1
                /\ UNCHANGED <<stack, ret, early, pc>>
           ELSE /\ ret' = Residual(c, body.retTy)
                /\ early' = idx
                /\ stack' = ExitTo(stack)
                /\ pc' = IF ExitTo(stack) = <<>> THEN "exited" ELSE "ret"
                /\ UNCHANGED <<acc, idx>>
    /\ UNCHANGED <<kind, form, body, self, map, result, evalCount, mapCalls,
                   awaits, binding, drops, afterRan>>

\* The tail expression: the callable returns its value.
EvalTail ==
    /\ pc = "body"
    /\ idx > Len(body.steps)
    /\ ret' = TailValue(body.tail, acc)
    /\ stack' = Tail(stack)
    /\ pc' = "ret"
    /\ UNCHANGED <<kind, form, body, self, map, idx, evald, acc, result, evalCount,
                   mapCalls, fut, awaits, binding, drops, early, afterRan>>

\* The invocation expression takes the callable's result as its value.
YieldWrapper ==
    /\ pc = "ret"
    /\ kind = "roo"
    /\ IF evalCount < Expansions
       THEN /\ pc' = "created"
            /\ UNCHANGED result
       ELSE /\ result' = WrapperYield(ret)
            /\ pc' = "returned"
    /\ UNCHANGED <<kind, form, body, self, map, stack, idx, evald, acc, ret, evalCount,
                   mapCalls, fut, awaits, binding, drops, early, afterRan>>

----------------------------------------------------------------------------
(* The single .await of the async arms and of async_map. *)

\* The computation is spawned and not awaited: the operation returns.
OnPendingReturn(k) == "ret"

\* Where an operation whose awaited computation is pending goes: it parks at
\* its .await.
OnPending(k) == "suspended"

ResumePoint(k) == IF k = "roo" THEN "body" ELSE "await"

\* The awaited computation is not ready when polled.
Suspend ==
    /\ pc \in {"body", "await"}
    /\ Head(stack) \in {"async_block", "async_fn"}
    /\ fut = "none"
    /\ pc = "body" => idx <= Len(body.steps)
    /\ fut' = "pending"
    /\ awaits' = awaits + 1
    /\ pc' = OnPending(kind)
    /\ UNCHANGED <<kind, form, body, self, map, stack, idx, evald, acc, ret, result,
                   evalCount, mapCalls, binding, drops, early, afterRan>>

\* The awaited computation completes (the host's executor and the computation
\* itself decide when).
InnerComplete ==
    /\ fut = "pending"
    /\ fut' = "ready"
    /\ UNCHANGED <<pc, kind, form, body, self, map, stack, idx, evald, acc, ret, result,
                   evalCount, mapCalls, awaits, binding, drops, early, afterRan>>

\* The parked operation is polled again once the computation is ready.
Resume ==
    /\ pc = "suspended"
    /\ fut = "ready"
    /\ pc' = ResumePoint(kind)
    /\ UNCHANGED <<kind, form, body, self, map, stack, idx, evald, acc, ret, result,
                   evalCount, mapCalls, fut, awaits, binding, drops, early, afterRan>>

----------------------------------------------------------------------------
(* AsyncMap::async_map for Option<T> and Result<T, E> *)

AsyncMapSelves == {s \in Selves : s.tcopy /\ s.ecopy}

\* container.async_map(map) in the caller: an async fn, so the call only
\* makes the future.
Invoke_async_map(s, f) ==
    /\ pc = "idle"
    /\ kind' = "async_map"
    /\ self' = s
    /\ map' = f
    /\ pc' = "created"
    /\ UNCHANGED <<form, body, stack, idx, evald, acc, ret, result, evalCount,
                   mapCalls, fut, awaits, binding, drops, early, afterRan>>

\* `.await` polls the future: the body of async_map starts.
PollAsyncMap ==
    /\ pc = "created"
    /\ kind = "async_map"
    /\ stack' = <<"async_fn">> \o stack
    /\ pc' = "match"
    /\ UNCHANGED <<kind, form, body, self, map, idx, evald, acc, ret, result, evalCount,
                   mapCalls, fut, awaits, binding, drops, early, afterRan>>

\* Failure arms that lose the payload.
PassThroughLost(c) == IF c.tag = "Err" THEN Err([c.err EXCEPT !.id = "lost"]) ELSE None

\* The arms `None => None` and `Err(e) => Err(e)`: the same variant, built
\* anew around the same payload.
PassThrough(c) == IF c.tag = "Err" THEN Err(c.err) ELSE None

\* `match self`: Some(t) / Ok(t) call map(t); None => None; Err(e) => Err(e).
MatchSelf ==
    /\ pc = "match"
    /\ IF IsSuccess(self.c)
       THEN /\ mapCalls' = Append(mapCalls, self.c.val)
            /\ pc' = "await"
            /\ UNCHANGED <<ret, stack>>
       ELSE /\ ret' = PassThrough(self.c)
            /\ stack' = Tail(stack)
            /\ pc' = "ret"
            /\ UNCHANGED mapCalls
    /\ UNCHANGED <<kind, form, body, self, map, idx, evald, acc, result, evalCount,
                   fut, awaits, binding, drops, early, afterRan>>

\* The held value wrapped again instead of the transform's output.
RewrapHeld(c, u) == IF c.tag = "Ok" THEN Ok(c.val) ELSE Some(c.val)

\* The variant async_map wraps the transform's output in: that of self.
Rewrap(c, u) == IF c.tag = "Ok" THEN Ok(u) ELSE Some(u)

\* `let u = map(t).await; Some(u)` / `Ok(u)`: the transform's computation is
\* complete and its output is wrapped.
AwaitMap ==
    /\ pc = "await"
    /\ fut # "pending"
    /\ ret' = Rewrap(self.c, Apply(map, mapCalls[Len(mapCalls)]))
    /\ fut' = "none"
    /\ stack' = Tail(stack)
    /\ pc' = "ret"
    /\ UNCHANGED <<kind, form, body, self, map, idx, evald, acc, result, evalCount,
                   mapCalls, awaits, binding, drops, early, afterRan>>

ReturnAsyncMap ==
    /\ pc = "ret"
    /\ kind = "async_map"
    /\ result' = ret
    /\ pc' = "returned"
    /\ UNCHANGED <<kind, form, body, self, map, stack, idx, evald, acc, ret, evalCount,
                   mapCalls, fut, awaits, binding, drops, early, afterRan>>

----------------------------------------------------------------------------
(* Discard::discard for Result<T, E> and Option<T> (the two bodies are the *)
(* same).                                                                  *)

\* `fn discard(&self)`: the caller keeps the container.
PassSelfByRef(s) == "valid"

\* `fn discard(self)`: self is passed by value.  A container of a Copy type is
\* copied and the caller's binding stays valid; any other is moved out of it.
PassSelf(s) == IF IsCopy(s) THEN "valid" ELSE "moved"

\* `let _ = self;`: the wildcard pattern binds nothing, so self is neither
\* moved nor dropped.
LetWildcard(s, d) == d

\* A discard that hands a failure back.
DiscardSurfaces(s) == IF IsFailure(s.c) THEN s.c ELSE Unit

\* discard has no return type: it returns unit whatever self is.
DiscardValue(s) == Unit

\* container.discard() in the caller.
Invoke_discard(s) ==
    /\ pc = "idle"
    /\ kind' = "discard"
    /\ self' = s
    /\ binding' = PassSelf(s)
    /\ stack' = <<"discard">> \o stack
    /\ pc' = "d_let"
    /\ UNCHANGED <<form, body, map, idx, evald, acc, ret, result, evalCount,
                   mapCalls, fut, awaits, drops, early, afterRan>>

DiscardLet ==
    /\ pc = "d_let"
    /\ drops' = LetWildcard(self, drops)
    /\ pc' = "d_drop"
    /\ UNCHANGED <<kind, form, body, self, map, stack, idx, evald, acc, ret, result,
                   evalCount, mapCalls, fut, awaits, binding, early, afterRan>>

\* `drop(self);`: self is moved into drop, which runs the payload's
\* destructor; then discard returns.
DiscardDrop ==
    /\ pc = "d_drop"
    /\ drops' = drops + DropGlue(self)
    /\ ret' = DiscardValue(self)
    /\ stack' = Tail(stack)
    /\ pc' = "ret"
    /\ UNCHANGED <<kind, form, body, self, map, idx, evald, acc, result, evalCount,
                   mapCalls, fut, awaits, binding, early, afterRan>>

ReturnDiscard ==
    /\ pc = "ret"
    /\ kind = "discard"
    /\ result' = ret
    /\ pc' = "returned"
    /\ UNCHANGED <<kind, form, body, self, map, stack, idx, evald, acc, ret, evalCount,
                   mapCalls, fut, awaits, binding, drops, early, afterRan>>

----------------------------------------------------------------------------
(* The caller *)

\* The caller's statement after the invocation.
CallerContinue ==
    /\ pc = "returned"
    /\ afterRan' = TRUE
    /\ pc' = "after"
    /\ UNCHANGED <<kind, form, body, self, map, stack, idx, evald, acc, ret, result,
                   evalCount, mapCalls, fut, awaits, binding, drops, early>>

\* End of the caller's scope: what the caller still owns is dropped.
ScopeEnd ==
    /\ pc = "after"
    /\ drops' = drops + (IF binding = "valid" THEN DropGlue(self) ELSE 0)
    /\ pc' = "done"
    /\ UNCHANGED <<kind, form, body, self, map, stack, idx, evald, acc, ret, result,
                   evalCount, mapCalls, fut, awaits, binding, early, afterRan>>

\* The caller is entered afresh.
Reset ==
    /\ pc \in {"done", "exited"}
    /\ pc' = "idle"
    /\ kind' = "none"
    /\ form' = "none"
    /\ body' = NoBody
    /\ self' = NoSelf
    /\ map' = "none"
    /\ stack' = <<"fn">>
    /\ idx' = 1
    /\ evald' = <<>>
    /\ acc' = 0
    /\ ret' = NoResult
    /\ result' = NoResult
    /\ evalCount' = 0
    /\ mapCalls' = <<>>
    /\ fut' = "none"
    /\ awaits' = 0
    /\ binding' = "none"
    /\ drops' = 0
    /\ early' = 0
    /\ afterRan' = FALSE

----------------------------------------------------------------------------

Step ==
    \/ CallCallable
    \/ EvalStep
    \/ EvalTail
    \/ YieldWrapper
    \/ Suspend
    \/ Resume
    \/ PollAsyncMap
    \/ MatchSelf
    \/ AwaitMap
    \/ ReturnAsyncMap
    \/ DiscardLet
    \/ DiscardDrop
    \/ ReturnDiscard
    \/ CallerContinue
    \/ ScopeEnd
    \/ Reset

\* The caller invokes one of the facilities on some input.
Invoke ==
    /\ pc = "idle"
    /\ \/ \E f \in Forms, b \in Bodies : Invoke_result_or_option(f, b)
       \/ \E s \in AsyncMapSelves, f \in Maps : Invoke_async_map(s, f)
       \/ \E s \in Selves : Invoke_discard(s)

Next ==
    \/ Invoke
    \/ InnerComplete
    \/ Step

Spec == Init /\ [][Next]_vars

\* The caller is polled to completion: every step of the program that can be
\* taken is taken.  When an awaited computation completes is not the
\* program's to decide.
FairSpec == Init /\ [][Next]_vars /\ WF_vars(Step)

----------------------------------------------------------------------------
(* Reference semantics of the wrapped code: the value it evaluates to as   *)
(* the body of a callable of its own, computed without the machine above.  *)

RECURSIVE EvalFrom(_, _, _)
EvalFrom(b, i, sum) ==
    IF i > Len(b.steps) THEN TailValue(b.tail, sum)
    ELSE IF IsSuccess(b.steps[i]) THEN EvalFrom(b, i + 1, sum + b.steps[i].val)
    ELSE Residual(b.steps[i], b.retTy)

Evaluates(b) == EvalFrom(b, 1, 0)

\* Index of the first failure/absent step, 0 when every step succeeds.
FirstFailure(b) ==
    IF \E i \in 1..Len(b.steps) : IsFailure(b.steps[i])
    THEN CHOOSE i \in 1..Len(b.steps) :
            /\ IsFailure(b.steps[i])
            /\ \A j \in 1..(i - 1) : IsSuccess(b.steps[j])
    ELSE 0

\* The operation has returned to the caller.
Returned == pc \in {"returned", "after", "done"}

UpTo(n) == [i \in 1..n |-> i]

----------------------------------------------------------------------------
(* result_or_option!: values flow out unchanged *)

\* C1: in each of the four forms, when the wrapped code evaluates to a success
\* container holding v, the value of the invocation is a success container
\* holding exactly v.
C1_SuccessPreserved ==
    (kind = "roo" /\ Returned /\ Evaluates(body).tag = "Ok")
        => (result.tag = "Ok" /\ result.val = Evaluates(body).val /\ result = Evaluates(body))

C1_Witness ==
    /\ kind = "roo"
    /\ form = "async_expr"
    /\ pc = "returned"
    /\ body.tail = OkSum
    /\ Len(body.steps) >= 1
    /\ result.tag = "Ok"
    /\ result.val > 0

\* C2: in each of the four forms, when the wrapped code produces a failure
\* container holding e, the value of the invocation is a failure container
\* holding exactly e; a failure the invocation yields is always the one the
\* wrapped code produced.
C2_FailurePreserved ==
    (kind = "roo" /\ Returned)
        => /\ Evaluates(body).tag = "Err" => result = Evaluates(body)
           /\ result.tag = "Err" => Evaluates(body) = result

C2_Witness ==
    /\ kind = "roo"
    /\ form = "block"
    /\ pc = "returned"
    /\ early = 0
    /\ Len(body.steps) >= 1
    /\ result.tag = "Err"

\* C3: in each of the four forms, wrapped code that evaluates to present(v)
\* makes the invocation yield present(v), and wrapped code that evaluates to
\* absent makes it yield absent.
C3_OptionPreserved ==
    (kind = "roo" /\ Returned /\ body.retTy = "opt")
        => /\ result.tag \in {"Some", "None"}
           /\ result.tag = Evaluates(body).tag
           /\ result.val = Evaluates(body).val

C3_Witness ==
    /\ kind = "roo"
    /\ form = "async_block"
    /\ pc = "returned"
    /\ body.retTy = "opt"
    /\ body.tail # None
    /\ result = None

----------------------------------------------------------------------------
(* result_or_option!: early return stays inside the wrapper *)

\* What holds of an early return whatever its payload: step k is the first
\* failure/absent step, the steps after k are not evaluated, and the caller is
\* not exited (its frame is the one left on the stack).
EarlyReturnContained ==
    (kind = "roo" /\ early > 0)
        => /\ early = FirstFailure(body)
           /\ evald = UpTo(early)
           /\ pc # "exited"
           /\ stack = <<"fn">>
           /\ pc = "done" => afterRan

\* C4 as stated: after an early return at step k the invocation's value is
\* exactly step k's failure/absent variant, the steps after k are not
\* evaluated and the caller is not exited.
C4_EarlyReturnExact ==
    /\ EarlyReturnContained
    /\ (kind = "roo" /\ early > 0 /\ Returned) => result = body.steps[early]

\* C4 amended: after an early return at step k the steps after k are not
\* evaluated, the caller is not exited and goes on to run its statement after
\* the invocation, and the invocation's value is absent when step k is absent,
\* and otherwise a failure container holding step k's payload converted by
\* From::from into the error type of the wrapped code's result: the payload
\* itself exactly when the two types are the same.
C4_EarlyReturnConverted ==
    /\ [](/\ EarlyReturnContained
          /\ (kind = "roo" /\ early > 0 /\ Returned) =>
                LET c == body.steps[early] IN
                /\ result.tag = c.tag
                /\ c.tag = "Err" =>
                      /\ result.err.id = c.err.id
                      /\ result.err.from = c.err.ty
                      /\ result.err.ty = body.retTy
                      /\ (c.err.ty = body.retTy <=> result = c)
                /\ c.tag = "None" => result = None)
    /\ ((kind = "roo" /\ early > 0) ~> afterRan)

C4_Witness ==
    /\ kind = "roo"
    /\ IsAsync(form)
    /\ early > 0
    /\ early < Len(body.steps)
    /\ afterRan
    /\ result.tag = "Err"
    /\ result.err.from # result.err.ty

\* C9: an invocation, in any of the four forms, has evaluated the wrapped code
\* exactly once when it returns: each step at most once and in order, and
\* nothing else of the program's state has changed.
C9_EvaluatedOnce ==
    (kind = "roo" /\ Returned)
        => /\ evalCount = 1
           /\ evald = UpTo(IF early > 0 THEN early ELSE Len(body.steps))
           /\ mapCalls = <<>>
           /\ drops = 0
           /\ binding = "none"
           /\ self = NoSelf

C9_Witness ==
    /\ kind = "roo"
    /\ form = "expr"
    /\ pc = "returned"
    /\ evalCount = 1
    /\ Len(evald) >= 2

----------------------------------------------------------------------------
(* async_map *)

\* C5: async_map on a present / success container holding t invokes the
\* transform exactly once, with t, and returns a container of the same variant
\* holding the output of the transform's computation.
C5_MapsHeldValue ==
    (kind = "async_map" /\ IsSuccess(self.c))
        => /\ Len(mapCalls) <= 1
           /\ Returned =>
                /\ mapCalls = <<self.c.val>>
                /\ result.tag = self.c.tag
                /\ result.val = Apply(map, self.c.val)
                /\ result.err = NoErr

C5_Witness ==
    /\ kind = "async_map"
    /\ pc = "returned"
    /\ self.c.tag = "Ok"
    /\ awaits = 1
    /\ map = "inc"
    /\ result = Ok(self.c.val + 1)

\* C6: async_map on an absent container, or on a failure container holding e,
\* never invokes the transform and returns absent, respectively a failure
\* container holding e unchanged.
C6_FailureUntouched ==
    (kind = "async_map" /\ IsFailure(self.c))
        => /\ mapCalls = <<>>
           /\ Returned => result = self.c

C6_Witness ==
    /\ kind = "async_map"
    /\ pc = "returned"
    /\ self.c.tag = "Err"
    /\ result.tag = "Err"
    /\ mapCalls = <<>>

----------------------------------------------------------------------------
(* discard *)

\* The payload the container holds has a destructor.
HoldsDestructible(s) ==
    \/ s.c.tag \in {"Ok", "Some"} /\ ~s.tcopy
    \/ s.c.tag = "Err" /\ ~s.ecopy

\* discard's body has run to its end.
Discarded == kind = "discard" /\ pc \in {"ret", "returned", "after", "done"}

\* C7: discard on any container returns unit; it has no error outcome and a
\* failure payload is not handed to the caller.
C7_DiscardReturnsUnit ==
    (kind = "discard" /\ Returned) => (result = Unit /\ ret = Unit)

C7_Witness ==
    /\ kind = "discard"
    /\ pc = "returned"
    /\ self.c.tag = "Err"
    /\ result = Unit

\* Once discard's body has run to its end the payload's destructor has run
\* exactly once, and it does not run again at the end of the caller's scope.
DestroyedOnceByReturn ==
    Discarded => drops = (IF HoldsDestructible(self) THEN 1 ELSE 0)

\* C8 as stated: the payload is destroyed exactly once by the time discard
\* returns, and after discard the caller's container is no longer usable.
C8_ConsumedAlways ==
    /\ DestroyedOnceByReturn
    /\ kind = "discard" => binding = "moved"

\* C8 amended: the payload is destroyed exactly once by the time discard
\* returns, and after discard the caller's container is no longer usable,
\* unless the container's type is Copy: then discard takes a copy, the
\* caller's container stays usable and no destructor exists to run.
C8_ConsumedUnlessCopy ==
    /\ DestroyedOnceByReturn
    /\ kind = "discard" =>
          /\ binding = "moved" <=> ~IsCopy(self)
          /\ binding = "valid" <=> IsCopy(self)
          /\ IsCopy(self) => drops = 0

C8_Witness ==
    /\ kind = "discard"
    /\ pc = "after"
    /\ self.c.tag = "Err"
    /\ drops = 1
    /\ binding = "moved"

----------------------------------------------------------------------------
(* The single suspension point *)

\* The operation has a computation of its own in flight.
InFlight == fut \in {"pending", "ready"}

AwaitDiscipline ==
    /\ fut = "pending" =>
          /\ pc = "suspended"
          /\ Head(stack) \in {"async_block", "async_fn"}
          /\ kind = "roo" => IsAsync(form)
    /\ pc = "suspended" => (result = NoResult /\ ~afterRan /\ InFlight)
    /\ Len(stack) <= 2
    /\ Returned => (fut = "none" /\ stack = <<"fn">> /\ ret # NoResult /\ result = ret)
    /\ afterRan => Returned
    /\ kind = "async_map" => awaits <= 1
    /\ (kind = "async_map" /\ IsFailure(self.c)) => (awaits = 0 /\ fut = "none")
    /\ (kind = "roo" /\ ~IsAsync(form)) => awaits = 0

\* C10: the async forms of result_or_option! and async_map park only at their
\* own .await; the caller's statement after the invocation never runs before
\* the awaited computation has completed; nothing runs beside the one callable;
\* async_map on an absent / failure container never waits; and when every
\* awaited computation completes, an invocation that has started returns.
C10_SingleSuspension ==
    /\ []AwaitDiscipline
    /\ ([]<>(fut # "pending")) => ((pc = "created") ~> (pc = "returned"))

C10_Witness ==
    /\ kind = "async_map"
    /\ pc = "after"
    /\ awaits = 1
    /\ afterRan

====
